---- MODULE Spec2Model ----
(***************************************************************************)
(* EasyBewerbung: credit ledger, generation-task and matching-score-task   *)
(* lifecycles, the login endpoint, the deletion of applications and of     *)
(* generated documents, and the prompt builder of the orchestrator.        *)
(*                                                                         *)
(* The database is modelled by its committed rows.  Every HTTP request     *)
(* owns one SQLAlchemy session: the get_current_user dependency loads the  *)
(* User row into the session's identity map, and the endpoint body works   *)
(* on that loaded object.  A flush writes the attribute value computed in  *)
(* Python (UPDATE users SET credits = <value>), not a relative change.     *)
(* Every Celery task execution owns one session and commits step by step.  *)
(***************************************************************************)
EXTENDS Integers, Sequences, FiniteSets, TLC

(***************************************************************************)
(* Bounds of the model.                                                    *)
(***************************************************************************)
NumRequests == 2
MaxInitCredits == 3
MaxLost == 1
NumLogins == 6
MaxDocId == 3

(***************************************************************************)
(* Program constants.                                                      *)
(***************************************************************************)
max_retries == 3
DefaultCost == 1
MAX_FAILED_LOGIN_ATTEMPTS == 5

Reqs == 1..NumRequests

Logins == 1..NumLogins

\* The requests whose tasks the worker specification follows: tasks share no
\* state, every row a worker writes is keyed by its own task.
TaskReqs == {1}

\* The requests of the matching-score specification: two tasks for one
\* application, the least number that can run concurrently.
ScoreReqs == {1, 2}

(***************************************************************************)
(* Document types.  COVER_LETTER and COMPANY_BRIEFING have a built-in      *)
(* prompt (tasks.py generate_document_prompt); the template table holds    *)
(* admin-configured rows; unknown_doc has neither.                         *)
(***************************************************************************)
BuiltinPrompts == {"COVER_LETTER", "COMPANY_BRIEFING"}

Templates ==
  [motivational_letter_pdf |-> [credit_cost |-> 1, llm_provider |-> "openai"],
   email_formal |-> [credit_cost |-> 2, llm_provider |-> "anthropic"]]

DocTypes == BuiltinPrompts \cup DOMAIN Templates \cup {"unknown_doc"}

\* The doc_types lists a generate request is called with; the body is a
\* List[str] without a minimum length, so the empty list is one of them.
DocTypeLists ==
  { <<>>,
    <<"COVER_LETTER">>,
    <<"COVER_LETTER", "COMPANY_BRIEFING", "motivational_letter_pdf">>,
    <<"unknown_doc", "COVER_LETTER">>,
    <<"email_formal", "unknown_doc">> }

AdjustAmounts == {-2, 1}
GrantAmounts == {1}

\* templates_map.get(doc_type) is not None
HasTemplate(d) == d \in DOMAIN Templates

CostOf(d) == IF HasTemplate(d) THEN Templates[d].credit_cost ELSE DefaultCost

RECURSIVE TotalCost(_)
TotalCost(docs) ==
  IF docs = <<>> THEN 0 ELSE CostOf(Head(docs)) + TotalCost(Tail(docs))

VARIABLES
  credits,    \* users.credits of the user, as committed in the database
  credits0,   \* the balance the run started with
  cvPresent,  \* the user has a CV document with content_text
  appPresent, \* the applications row the requests address (id 0) exists
  numApps,    \* applications rows created by create_application
  req,        \* HTTP requests: position, arguments, session copy, response
  gtask,      \* generation_tasks rows, keyed by the creating request
  gexec,      \* broker message and worker execution of each generation task
  mtask,      \* matching_score_tasks rows, keyed by the creating request
  mexec,      \* broker message and worker execution of each matching task
  gdocs,      \* generated_documents rows written by the orchestrator
  mscore,     \* matching_scores rows
  lost,       \* worker processes lost so far
  failed_login_attempts,  \* users.failed_login_attempts as stored
  account_locked_until,   \* users.account_locked_until as stored
  login,      \* login requests: position, password, response
  wrongStreak, \* wrong-password logins answered since the last successful one
  prompt_call, \* the last call of the orchestrator's prompt builder
  gen_docs,   \* generated_documents by id: the application of the row, 0 for
              \* an id not assigned yet, -1 for a row that was deleted
  del         \* broker message and execution of delete_documents_task

appVars == <<credits, credits0, cvPresent, appPresent, numApps, req, gtask, gexec, mtask,
             mexec, gdocs, mscore, lost>>

loginVars == <<failed_login_attempts, account_locked_until, login, wrongStreak>>

promptVars == <<prompt_call>>

deleteVars == <<gen_docs, del>>

vars == <<appVars, loginVars, promptVars, deleteVars>>

NoError == [kind |-> "none", doc |-> "-"]

NewReq == [pc |-> "new", kind |-> "-", docs |-> <<>>, amount |-> 0,
           sess |-> 0, resp |-> 0, remaining |-> 0]

NoGenTask == [status |-> "absent", progress |-> 0, total_docs |-> 0,
              completed_docs |-> 0, error_message |-> NoError]

NoGenExec == [pc |-> "none", retries |-> 0, run |-> 0, idx |-> 0,
              doc_types |-> <<>>, out |-> <<>>, result |-> "-",
              finished |-> FALSE]

NewLogin == [pc |-> "new", password |-> "-", streak |-> 0, locked |-> "none",
             resp |-> 0, set_lock |-> FALSE]

NoMatchTask == [status |-> "absent", error_message |-> NoError]

NoPromptCall == [called |-> FALSE]

NoDelExec == [pc |-> "none", application_id |-> 0, document_ids |-> <<>>,
              user_id |-> 0, retries |-> 0, idx |-> 0, marked |-> {},
              result |-> "-"]

\* llm_calls counts the chat-completion calls (line 235) made for the task.
NoMatchExec == [pc |-> "none", retries |-> 0, run |-> 0, application_id |-> 0,
                recalculate |-> FALSE, existing |-> FALSE, result |-> "-",
                llm_calls |-> 0]

Init ==
  /\ credits \in 0..MaxInitCredits
  /\ credits0 = credits
  /\ cvPresent = TRUE
  /\ appPresent = TRUE
  /\ numApps = 0
  /\ req = [r \in Reqs |-> NewReq]
  /\ gtask = [r \in Reqs |-> NoGenTask]
  /\ gexec = [r \in Reqs |-> NoGenExec]
  /\ mtask = [r \in Reqs |-> NoMatchTask]
  /\ mexec = [r \in Reqs |-> NoMatchExec]
  /\ gdocs = {}
  /\ mscore = {}
  /\ lost = 0
  /\ failed_login_attempts = 0
  /\ account_locked_until = "none"
  /\ login = [r \in Logins |-> NewLogin]
  /\ wrongStreak = 0
  /\ prompt_call = NoPromptCall
  /\ gen_docs = [i \in 1..MaxDocId |-> 0]
  /\ del = NoDelExec

(***************************************************************************)
(* HTTP requests.                                                          *)
(***************************************************************************)

\* auth.py get_current_user: db.query(User).filter(User.id == user_id).first()
\* loads the User row into the request's session; the endpoint and its
\* arguments are fixed by the request.
GetCurrentUser(r) ==
  /\ req[r].pc = "new"
  /\ \E k \in {"generate", "create_application"} :
       \E ds \in DocTypeLists :
         req' = [req EXCEPT ![r] =
                   [@ EXCEPT !.pc = "authed", !.kind = k,
                             !.docs = IF k = "generate" THEN ds ELSE <<>>,
                             !.sess = credits]]
  /\ UNCHANGED <<credits, credits0, cvPresent, appPresent, numApps, gtask, gexec, mtask,
                 mexec, gdocs, mscore, lost,
                 loginVars, promptVars, deleteVars>>

\* Query.first() on a row whose object is already in the session's identity
\* map returns that object with its loaded attributes: the endpoint does not
\* call populate_existing() and nothing has expired the object.
QueryUserCredits(sessCredits, dbCredits) == sessCredits

\* Mutation of GenerateDecision: the debit is committed before the CV check.
GenerateDecisionDebitFirst(have, total_cost, cv) ==
  IF have < total_cost THEN [resp |-> 402, commit |-> FALSE, debit |-> 0]
  ELSE IF ~cv THEN [resp |-> 400, commit |-> TRUE, debit |-> total_cost]
  ELSE [resp |-> 200, commit |-> TRUE, debit |-> total_cost]

\* Mutation of GenerateDecision: the credit check is off by one.
GenerateDecisionOffByOne(have, total_cost, cv) ==
  IF have + 1 < total_cost THEN [resp |-> 402, commit |-> FALSE, debit |-> 0]
  ELSE IF ~cv THEN [resp |-> 400, commit |-> FALSE, debit |-> 0]
  ELSE [resp |-> 200, commit |-> TRUE, debit |-> total_cost]

\* applications.py lines 959-986: the credit check, the CV check, then the
\* debit and the task row, committed together.  debit is the amount taken
\* from the session's balance; commit says whether db.commit() is reached.
GenerateDecision(have, total_cost, cv) ==
  IF have < total_cost THEN [resp |-> 402, commit |-> FALSE, debit |-> 0]
  ELSE IF ~cv THEN [resp |-> 400, commit |-> FALSE, debit |-> 0]
  ELSE [resp |-> 200, commit |-> TRUE, debit |-> total_cost]

\* applications.py generate_documents, from the application query to the
\* response: 404 when the application is not found (lines 935-941).
GenerateDocuments(r) ==
  /\ req[r].pc = "authed"
  /\ req[r].kind = "generate"
  /\ LET total_cost == TotalCost(req[r].docs)
         have == req[r].sess
         dec == GenerateDecision(have, total_cost, cvPresent)
     IN IF ~appPresent
        THEN /\ req' = [req EXCEPT ![r] = [@ EXCEPT !.pc = "done", !.resp = 404]]
             /\ UNCHANGED <<credits, gtask, gexec>>
        ELSE IF dec.resp # 200
        THEN /\ req' = [req EXCEPT ![r] = [@ EXCEPT !.pc = "done", !.resp = dec.resp]]
             /\ credits' = IF dec.commit THEN have - dec.debit ELSE credits
             /\ UNCHANGED <<gtask, gexec>>
        ELSE /\ credits' = have - dec.debit
             /\ gtask' = [gtask EXCEPT ![r] =
                            [status |-> "pending", progress |-> 0,
                             total_docs |-> Len(req[r].docs),
                             completed_docs |-> 0, error_message |-> NoError]]
             /\ gexec' = [gexec EXCEPT ![r] =
                            [NoGenExec EXCEPT !.pc = "queued",
                                              !.doc_types = req[r].docs]]
             /\ req' = [req EXCEPT ![r] =
                          [@ EXCEPT !.pc = "done", !.resp = 200,
                                    !.remaining = have - total_cost]]
  /\ UNCHANGED <<credits0, cvPresent, appPresent, numApps, mtask, mexec, gdocs, mscore, lost,
                 loginVars, promptVars, deleteVars>>

\* applications.py line 415: user_for_update.credits <= 0
NoCreditsLeft(have) == have <= 0

\* applications.py create_application, from the user query to the response.
CreateApplication(r) ==
  /\ req[r].pc = "authed"
  /\ req[r].kind = "create_application"
  /\ LET have == QueryUserCredits(req[r].sess, credits)
     IN IF NoCreditsLeft(have)
        THEN /\ req' = [req EXCEPT ![r] = [@ EXCEPT !.pc = "done", !.resp = 402]]
             /\ UNCHANGED <<credits, numApps, mtask, mexec>>
        ELSE /\ credits' = have - 1
             /\ numApps' = numApps + 1
             /\ req' = [req EXCEPT ![r] =
                          [@ EXCEPT !.pc = "done", !.resp = 200,
                                    !.remaining = have - 1]]
             /\ IF cvPresent
                THEN /\ mtask' = [mtask EXCEPT ![r] =
                                    [status |-> "pending", error_message |-> NoError]]
                     /\ mexec' = [mexec EXCEPT ![r] =
                                    [NoMatchExec EXCEPT !.pc = "queued",
                                                        !.application_id = r]]
                ELSE UNCHANGED <<mtask, mexec>>
  /\ UNCHANGED <<credits0, cvPresent, appPresent, gtask, gexec, gdocs, mscore, lost,
                 loginVars, promptVars, deleteVars>>

\* admin.py adjust_credits: user = db.query(User)...first()
AdjustCreditsLoad(r) ==
  /\ req[r].pc = "new"
  /\ \E a \in AdjustAmounts :
       req' = [req EXCEPT ![r] =
                 [@ EXCEPT !.pc = "authed", !.kind = "adjust_credits",
                           !.amount = a, !.sess = credits]]
  /\ UNCHANGED <<credits, credits0, cvPresent, appPresent, numApps, gtask, gexec, mtask,
                 mexec, gdocs, mscore, lost,
                 loginVars, promptVars, deleteVars>>

\* Mutation of NegativeBalance: the check is off by one.
NegativeBalanceOffByOne(new_credits) == new_credits < -1

\* admin.py line 262: new_credits < 0
NegativeBalance(new_credits) == new_credits < 0

\* admin.py adjust_credits: the negative-balance check and the commit.
AdjustCredits(r) ==
  /\ req[r].pc = "authed"
  /\ req[r].kind = "adjust_credits"
  /\ LET new_credits == req[r].sess + req[r].amount
     IN IF NegativeBalance(new_credits)
        THEN /\ req' = [req EXCEPT ![r] = [@ EXCEPT !.pc = "done", !.resp = 400]]
             /\ UNCHANGED credits
        ELSE /\ credits' = new_credits
             /\ req' = [req EXCEPT ![r] =
                          [@ EXCEPT !.pc = "done", !.resp = 200,
                                    !.remaining = new_credits]]
  /\ UNCHANGED <<credits0, cvPresent, appPresent, numApps, gtask, gexec, mtask, mexec,
                 gdocs, mscore, lost,
                 loginVars, promptVars, deleteVars>>

\* users.py grant_credits: user = db.query(User)...first()
GrantCreditsLoad(r) ==
  /\ req[r].pc = "new"
  /\ \E a \in GrantAmounts :
       req' = [req EXCEPT ![r] =
                 [@ EXCEPT !.pc = "authed", !.kind = "grant_credits",
                           !.amount = a, !.sess = credits]]
  /\ UNCHANGED <<credits, credits0, cvPresent, appPresent, numApps, gtask, gexec, mtask,
                 mexec, gdocs, mscore, lost,
                 loginVars, promptVars, deleteVars>>

\* users.py grant_credits: user.credits += payload.credits_to_add; commit.
GrantCredits(r) ==
  /\ req[r].pc = "authed"
  /\ req[r].kind = "grant_credits"
  /\ credits' = req[r].sess + req[r].amount
  /\ req' = [req EXCEPT ![r] =
               [@ EXCEPT !.pc = "done", !.resp = 200,
                         !.remaining = req[r].sess + req[r].amount]]
  /\ UNCHANGED <<credits0, cvPresent, appPresent, numApps, gtask, gexec, mtask, mexec,
                 gdocs, mscore, lost,
                 loginVars, promptVars, deleteVars>>

\* The matching_scores rows of one application.
ScoreRowsOf(app) == {s \in mscore : s.application_id = app}

\* applications.py calculate_matching_score, called for the application the
\* user had from the start (id 0; create_application request r creates the
\* application r).  The endpoint does not read the credit balance.
CalculateMatchingScore(r) ==
  /\ req[r].pc = "new"
  /\ \E recalculate \in BOOLEAN :
       IF ~appPresent
       THEN \* lines 810-816: application not found
            /\ req' = [req EXCEPT ![r] =
                         [@ EXCEPT !.pc = "done", !.resp = 404,
                                   !.kind = "calculate_matching_score"]]
            /\ UNCHANGED <<mtask, mexec>>
       ELSE IF ~recalculate /\ ScoreRowsOf(0) # {}
       THEN \* "already_calculated": answered without a task
            /\ req' = [req EXCEPT ![r] =
                         [@ EXCEPT !.pc = "done", !.resp = 200,
                                   !.kind = "calculate_matching_score"]]
            /\ UNCHANGED <<mtask, mexec>>
       ELSE IF ~cvPresent
       THEN /\ req' = [req EXCEPT ![r] =
                         [@ EXCEPT !.pc = "done", !.resp = 400,
                                   !.kind = "calculate_matching_score"]]
            /\ UNCHANGED <<mtask, mexec>>
       ELSE /\ req' = [req EXCEPT ![r] =
                         [@ EXCEPT !.pc = "done", !.resp = 200,
                                   !.kind = "calculate_matching_score"]]
            /\ mtask' = [mtask EXCEPT ![r] =
                           [status |-> "pending", error_message |-> NoError]]
            /\ mexec' = [mexec EXCEPT ![r] =
                           [NoMatchExec EXCEPT !.pc = "queued",
                                               !.application_id = 0,
                                               !.recalculate = recalculate]]
  /\ UNCHANGED <<credits, credits0, cvPresent, appPresent, numApps, gtask, gexec, gdocs,
                 mscore, lost,
                 loginVars, promptVars, deleteVars>>

\* documents.py delete_document on the user's CV.
DeleteDocument ==
  /\ cvPresent
  /\ cvPresent' = FALSE
  /\ UNCHANGED <<credits, credits0, appPresent, numApps, req, gtask, gexec,
                 mtask, mexec, gdocs, mscore, lost,
                 loginVars, promptVars, deleteVars>>

\* applications.py delete_application (lines 721-754) on the application the
\* requests address: its matching-score tasks, matching scores, generation
\* tasks and generated documents are deleted with it in one commit.  The
\* messages already handed to the broker stay there.
DeleteApplication ==
  /\ appPresent
  /\ appPresent' = FALSE
  /\ mtask' = [t \in Reqs |->
                 IF mexec[t].application_id = 0 THEN NoMatchTask ELSE mtask[t]]
  /\ mscore' = mscore \ ScoreRowsOf(0)
  /\ gtask' = [t \in Reqs |-> NoGenTask]
  /\ gdocs' = {}
  /\ UNCHANGED <<credits, credits0, cvPresent, numApps, req, gexec, mexec, lost,
                 loginVars, promptVars, deleteVars>>

(***************************************************************************)
(* Worker: generate_documents_task.                                        *)
(***************************************************************************)

\* What one chat-completion call can yield: text, no content (an empty
\* string or a None message content), or an exception.
LLMResults == {"text", "empty", "raise"}

\* tasks.py generate_document_prompt: prompts.get(doc_type)
BuiltinPrompt(d) == IF d \in BuiltinPrompts THEN "builtin" ELSE "none"

\* tasks.py lines 385-403: the template prompt when it could be built, else
\* the built-in prompt, else None.
ResolvePrompt(d, built) ==
  IF HasTemplate(d) /\ built THEN "template" ELSE BuiltinPrompt(d)

\* tasks.py generate_with_llm: only the openai provider calls the API.
GenerateWithLLM(provider, api) == IF provider = "openai" THEN api ELSE "empty"

\* Mutation of CompletedDocsAfter: a counter incremented per success.
CompletedDocsIncremented(pos, old) == old + 1

\* task.completed_docs = idx + 1, with pos the 1-based position of the doc.
CompletedDocsAfter(pos, old) == pos

\* Python's round(100 * c / t): to the nearest integer, ties to even.
PyRound(c, t) ==
  LET q == (100 * c) \div t
      rem == (100 * c) % t
  IN IF 2 * rem < t THEN q
     ELSE IF 2 * rem > t THEN q + 1
     ELSE IF q % 2 = 0 THEN q ELSE q + 1

\* Mutation of ProgressOf: the percentage is rounded instead of truncated.
ProgressRounded(c, t) == PyRound(c, t)

\* int((completed_docs / total_docs) * 100): the float product truncated.
\* It equals the integer floor of 100*c/t for every total_docs below 50
\* (the first difference is c = 29, t = 50).
ProgressOf(c, t) == (100 * c) \div t

PartialFailure(d) == [kind |-> "partial", doc |-> d]

\* self.retry(exc=e): a new message with retries + 1 while retries are left,
\* otherwise the exception is raised and the message is dropped.
RetryPc(retries) == IF retries < max_retries THEN "queued" ELSE "dead"

\* The UPDATE of a row that was deleted meanwhile matches no row: the flush
\* raises StaleDataError, the handler of line 449 cannot commit either (the
\* session refuses commits until rollback()), so nothing is stored, the
\* exception leaves the task function and self.retry is not reached.
GenStale(t) ==
  /\ gexec' = [gexec EXCEPT ![t] = [@ EXCEPT !.pc = "dead", !.result = "stale"]]
  /\ UNCHANGED <<gtask, gdocs>>

\* Lines 297-310: fetch the task row, mark it processing, commit; return
\* when the row is not found.
GenStart(t) ==
  /\ gexec[t].pc = "queued"
  /\ IF gtask[t].status = "absent"
     THEN /\ gexec' = [gexec EXCEPT ![t] =
                         [@ EXCEPT !.pc = "returned", !.run = @ + 1,
                                   !.out = <<>>, !.result = "not_found"]]
          /\ UNCHANGED gtask
     ELSE /\ gtask' = [gtask EXCEPT ![t] =
                         [@ EXCEPT !.status = "processing",
                                   !.total_docs = Len(gexec[t].doc_types)]]
          /\ gexec' = [gexec EXCEPT ![t] =
                         [@ EXCEPT !.pc = "setup", !.run = @ + 1, !.idx = 1,
                                   !.out = <<>>, !.result = "-"]]
  /\ UNCHANGED <<credits, credits0, cvPresent, appPresent, numApps, req, mtask, mexec,
                 gdocs, mscore, lost,
                 loginVars, promptVars, deleteVars>>

\* Lines 313-333: the prerequisite that is missing, the application being
\* looked up first.
MissingPrerequisite(app, cv) ==
  IF ~app THEN "no_app" ELSE IF ~cv THEN "no_cv" ELSE "none"

\* Mutation of GenMissing: the execution raises and is retried.
GenMissingRetries(t, missing) ==
  /\ gtask' = [gtask EXCEPT ![t] =
                 [@ EXCEPT !.status = "failed",
                           !.error_message = [kind |-> missing, doc |-> "-"]]]
  /\ gexec' = [gexec EXCEPT ![t] =
                 [@ EXCEPT !.pc = RetryPc(gexec[t].retries),
                           !.retries = IF @ < max_retries THEN @ + 1 ELSE @,
                           !.result = "raised"]]
  /\ UNCHANGED gdocs

\* Lines 314-318 and 329-333: status failed with the message of the missing
\* prerequisite, commit, return.
GenMissing(t, missing) ==
  /\ gtask' = [gtask EXCEPT ![t] =
                 [@ EXCEPT !.status = "failed",
                           !.error_message = [kind |-> missing, doc |-> "-"]]]
  /\ gexec' = [gexec EXCEPT ![t] =
                 [@ EXCEPT !.pc = "returned", !.result = "failed"]]
  /\ UNCHANGED gdocs

\* Lines 312-381: load application, user, CV, job description, templates.
GenSetup(t) ==
  /\ gexec[t].pc = "setup"
  /\ LET missing == MissingPrerequisite(appPresent, cvPresent)
     IN IF missing # "none"
        THEN IF gtask[t].status = "absent" THEN GenStale(t)
             ELSE GenMissing(t, missing)
        ELSE /\ gexec' = [gexec EXCEPT ![t] = [@ EXCEPT !.pc = "loop"]]
             /\ UNCHANGED <<gtask, gdocs>>
  /\ UNCHANGED <<credits, credits0, cvPresent, appPresent, numApps, req, mtask,
                 mexec, mscore, lost,
                 loginVars, promptVars, deleteVars>>

\* Mutation of GenFatal: the handler of the whole task gives the reserved
\* credits back.
GenFatalRefunds(t) ==
  /\ gexec[t].pc = "setup"
  /\ gtask' = [gtask EXCEPT ![t] =
                 [@ EXCEPT !.status = "failed",
                           !.error_message = [kind |-> "fatal", doc |-> "-"]]]
  /\ gexec' = [gexec EXCEPT ![t] =
                 [@ EXCEPT !.pc = RetryPc(gexec[t].retries),
                           !.retries = IF @ < max_retries THEN @ + 1 ELSE @,
                           !.result = "raised"]]
  /\ credits' = credits + TotalCost(gexec[t].doc_types)
  /\ UNCHANGED <<credits0, cvPresent, appPresent, numApps, req, mtask, mexec,
                 gdocs, mscore, lost,
                 loginVars, promptVars, deleteVars>>

\* Lines 449-456: an exception raised outside the per-document try block
\* (a query, or the OpenAI client constructor of line 381).
GenFatal(t) ==
  /\ gexec[t].pc = "setup"
  /\ IF gtask[t].status = "absent" THEN GenStale(t)
     ELSE /\ gtask' = [gtask EXCEPT ![t] =
                         [@ EXCEPT !.status = "failed",
                                   !.error_message = [kind |-> "fatal", doc |-> "-"]]]
          /\ gexec' = [gexec EXCEPT ![t] =
                         [@ EXCEPT !.pc = RetryPc(gexec[t].retries),
                                   !.retries = IF @ < max_retries THEN @ + 1 ELSE @,
                                   !.result = "raised"]]
          /\ UNCHANGED gdocs
  /\ UNCHANGED <<credits, credits0, cvPresent, appPresent, numApps, req, mtask,
                 mexec, mscore, lost,
                 loginVars, promptVars, deleteVars>>

\* The row a successful iteration adds (lines 423-430).
GenDocRow(t, pos, d, content) ==
  [task |-> t, run |-> gexec[t].run, pos |-> pos, doc_type |-> d,
   content |-> content]

\* Mutation of GenDocSkip: a doc_type without a prompt fails the task.
GenDocSkipFails(t, pos) ==
  /\ gtask' = [gtask EXCEPT ![t] =
                 [@ EXCEPT !.status = "failed",
                           !.error_message = [kind |-> "fatal", doc |-> "-"]]]
  /\ gexec' = [gexec EXCEPT ![t] =
                 [@ EXCEPT !.pc = "returned", !.out = Append(@, "skip"),
                           !.result = "failed"]]
  /\ UNCHANGED gdocs

\* Lines 394-396 and 402-403: no prompt, continue with the next doc_type.
GenDocSkip(t, pos) ==
  /\ gexec' = [gexec EXCEPT ![t] =
                 [@ EXCEPT !.idx = pos + 1, !.out = Append(@, "skip")]]
  /\ UNCHANGED <<gtask, gdocs>>

\* Mutation of GenDocError: the exception leaves the loop and reaches the
\* handler of the whole task.
GenDocErrorAborts(t, pos, d) ==
  /\ gtask' = [gtask EXCEPT ![t] =
                 [@ EXCEPT !.status = "failed",
                           !.error_message = [kind |-> "fatal", doc |-> "-"]]]
  /\ gexec' = [gexec EXCEPT ![t] =
                 [@ EXCEPT !.pc = RetryPc(gexec[t].retries),
                           !.retries = IF @ < max_retries THEN @ + 1 ELSE @,
                           !.out = Append(@, "raise"),
                           !.result = "raised"]]
  /\ UNCHANGED gdocs

\* Lines 437-440: the exception of one doc_type is caught inside the loop;
\* the failure is recorded and committed, the loop goes on.
GenDocError(t, pos, d) ==
  /\ gtask' = [gtask EXCEPT ![t] =
                 [@ EXCEPT !.error_message = PartialFailure(d)]]
  /\ gexec' = [gexec EXCEPT ![t] =
                 [@ EXCEPT !.idx = pos + 1, !.out = Append(@, "raise")]]
  /\ UNCHANGED gdocs

\* Mutation of GenDocSuccess: a doc_type that already has a row of this task
\* is recognised and not generated again.
GenDocSuccessDetects(t, pos, d, content) ==
  /\ gdocs' = IF \E row \in gdocs : row.task = t /\ row.doc_type = d
              THEN gdocs
              ELSE gdocs \cup {GenDocRow(t, pos, d, content)}
  /\ gtask' = [gtask EXCEPT ![t] =
                 [@ EXCEPT
                    !.completed_docs = CompletedDocsAfter(pos, @),
                    !.progress =
                       ProgressOf(CompletedDocsAfter(pos, gtask[t].completed_docs),
                                  gtask[t].total_docs)]]
  /\ gexec' = [gexec EXCEPT ![t] =
                 [@ EXCEPT !.idx = pos + 1, !.out = Append(@, content)]]

\* Lines 411-435: add the row, update completed_docs and progress, commit.
GenDocSuccess(t, pos, d, content) ==
  /\ gdocs' = gdocs \cup {GenDocRow(t, pos, d, content)}
  /\ gtask' = [gtask EXCEPT ![t] =
                 [@ EXCEPT
                    !.completed_docs = CompletedDocsAfter(pos, @),
                    !.progress =
                       ProgressOf(CompletedDocsAfter(pos, gtask[t].completed_docs),
                                  gtask[t].total_docs)]]
  /\ gexec' = [gexec EXCEPT ![t] =
                 [@ EXCEPT !.idx = pos + 1, !.out = Append(@, content)]]

\* Lines 383-440: one iteration of the per-document loop.  A doc_type
\* without a prompt is passed over without a write; every other outcome
\* commits, which fails when the task row was deleted.
GenDoc(t) ==
  /\ gexec[t].pc = "loop"
  /\ gexec[t].idx <= Len(gexec[t].doc_types)
  /\ \E built \in BOOLEAN, api \in LLMResults :
       LET pos == gexec[t].idx
           d == gexec[t].doc_types[pos]
           prompt == ResolvePrompt(d, built)
           content == IF HasTemplate(d)
                      THEN GenerateWithLLM(Templates[d].llm_provider, api)
                      ELSE api
       IN IF prompt = "none" THEN GenDocSkip(t, pos)
          ELSE IF gtask[t].status = "absent" THEN GenStale(t)
          ELSE IF content = "raise" THEN GenDocError(t, pos, d)
          ELSE GenDocSuccess(t, pos, d, content)
  /\ UNCHANGED <<credits, credits0, cvPresent, appPresent, numApps, req, mtask, mexec,
                 mscore, lost,
                 loginVars, promptVars, deleteVars>>

\* Lines 442-447: mark as completed.
GenFinish(t) ==
  /\ gexec[t].pc = "loop"
  /\ gexec[t].idx > Len(gexec[t].doc_types)
  /\ IF gtask[t].status = "absent" THEN GenStale(t)
     ELSE /\ gtask' = [gtask EXCEPT ![t] =
                         [@ EXCEPT !.status = "completed", !.progress = 100]]
          /\ gexec' = [gexec EXCEPT ![t] =
                         [@ EXCEPT !.pc = "returned", !.result = "completed",
                                   !.finished = TRUE]]
          /\ UNCHANGED gdocs
  /\ UNCHANGED <<credits, credits0, cvPresent, appPresent, numApps, req, mtask,
                 mexec, mscore, lost,
                 loginVars, promptVars, deleteVars>>

\* celery_app.py task_acks_late: the message is acknowledged after the task
\* function has returned.
GenAck(t) ==
  /\ gexec[t].pc = "returned"
  /\ gexec' = [gexec EXCEPT ![t] = [@ EXCEPT !.pc = "acked"]]
  /\ UNCHANGED <<credits, credits0, cvPresent, appPresent, numApps, req, gtask, mtask,
                 mexec, gdocs, mscore, lost,
                 loginVars, promptVars, deleteVars>>

\* celery_app.py task_reject_on_worker_lost: the worker process dies before
\* the acknowledgement and the broker delivers the message again.
GenWorkerLost(t) ==
  /\ gexec[t].pc \in {"setup", "loop", "returned"}
  /\ lost < MaxLost
  /\ lost' = lost + 1
  /\ gexec' = [gexec EXCEPT ![t] = [@ EXCEPT !.pc = "queued"]]
  /\ UNCHANGED <<credits, credits0, cvPresent, appPresent, numApps, req, gtask, mtask,
                 mexec, gdocs, mscore,
                 loginVars, promptVars, deleteVars>>

(***************************************************************************)
(* Worker: calculate_matching_score_task.                                  *)
(***************************************************************************)

\* The applications row exists: only the application with id 0 is ever
\* deleted.
AppExists(app) == app # 0 \/ appPresent

\* The UPDATE of a task row that was deleted meanwhile raises StaleDataError
\* at the flush; the handler of line 276 cannot commit either, nothing is
\* stored and self.retry is not reached.
MatchStale(t) ==
  /\ mexec' = [mexec EXCEPT ![t] = [@ EXCEPT !.pc = "dead", !.result = "stale"]]
  /\ UNCHANGED <<mtask, mscore>>

\* Lines 163-175: fetch the task row, mark it processing, commit; return
\* when the row is not found.
MatchStart(t) ==
  /\ mexec[t].pc = "queued"
  /\ IF mtask[t].status = "absent"
     THEN /\ mexec' = [mexec EXCEPT ![t] =
                         [@ EXCEPT !.pc = "returned", !.run = @ + 1,
                                   !.result = "not_found"]]
          /\ UNCHANGED mtask
     ELSE /\ mtask' = [mtask EXCEPT ![t] = [@ EXCEPT !.status = "processing"]]
          /\ mexec' = [mexec EXCEPT ![t] =
                         [@ EXCEPT !.pc = "setup", !.run = @ + 1, !.result = "-"]]
  /\ UNCHANGED <<credits, credits0, cvPresent, appPresent, numApps, req, gtask, gexec,
                 gdocs, mscore, lost,
                 loginVars, promptVars, deleteVars>>

\* Lines 177-196: the application is not found, or there is no CV with text
\* content.
MatchNoCV(t) ==
  /\ mexec[t].pc = "setup"
  /\ LET missing == MissingPrerequisite(AppExists(mexec[t].application_id),
                                        cvPresent)
     IN /\ missing # "none"
        /\ IF mtask[t].status = "absent" THEN MatchStale(t)
           ELSE /\ mtask' = [mtask EXCEPT ![t] =
                               [status |-> "failed",
                                error_message |-> [kind |-> missing, doc |-> "-"]]]
                /\ mexec' = [mexec EXCEPT ![t] =
                               [@ EXCEPT !.pc = "returned", !.result = "failed"]]
                /\ UNCHANGED mscore
  /\ UNCHANGED <<credits, credits0, cvPresent, appPresent, numApps, req, gtask,
                 gexec, gdocs, lost,
                 loginVars, promptVars, deleteVars>>

\* Lines 198-251: the LLM call returned JSON that parses; the execution
\* queries the MatchingScore row of the application.
MatchRead(t) ==
  /\ mexec[t].pc = "setup"
  /\ AppExists(mexec[t].application_id)
  /\ cvPresent
  /\ mexec' = [mexec EXCEPT ![t] =
                 [@ EXCEPT !.pc = "parsed", !.llm_calls = @ + 1,
                           !.existing =
                              (ScoreRowsOf(mexec[t].application_id) # {})]]
  /\ UNCHANGED <<credits, credits0, cvPresent, appPresent, numApps, req, gtask, gexec,
                 mtask, gdocs, mscore, lost,
                 loginVars, promptVars, deleteVars>>

\* Mutation of UniqueViolation: the column has no unique constraint.
UniqueViolationNever(app) == FALSE

\* models.py line 116: application_id is unique, so the INSERT of a second
\* row for an application raises IntegrityError at the flush.
UniqueViolation(app) == ScoreRowsOf(app) # {}

\* Mutation of SaveScore: an existing row is overwritten whatever
\* recalculate is.
SaveScoreAlways(existing, recalculate) ==
  IF existing THEN "update" ELSE "insert"

\* Lines 253-269: update the existing row when recalculating, insert when
\* no row was found, otherwise write nothing.
SaveScore(existing, recalculate) ==
  IF existing /\ recalculate THEN "update"
  ELSE IF ~existing THEN "insert"
  ELSE "keep"

\* Lines 253-274: save the score, mark the task completed, commit.  When the
\* flush of the commit raises IntegrityError the transaction is rolled back
\* and the session refuses further commits until rollback() is called: the
\* commit of the handler (line 281) raises as well, the row keeps the
\* committed status processing and self.retry is not reached.
MatchScore(t) ==
  /\ mexec[t].pc = "parsed"
  /\ LET app == mexec[t].application_id
         own == [application_id |-> app, task |-> t, run |-> mexec[t].run]
         save == SaveScore(mexec[t].existing, mexec[t].recalculate)
     IN IF mtask[t].status = "absent" THEN MatchStale(t)
        ELSE IF save = "insert" /\ UniqueViolation(app)
        THEN /\ mexec' = [mexec EXCEPT ![t] =
                            [@ EXCEPT !.pc = "dead", !.result = "conflict"]]
             /\ UNCHANGED <<mtask, mscore>>
        ELSE /\ mscore' =
                  IF save = "insert" THEN mscore \cup {own}
                  ELSE IF save = "update"
                  THEN {IF s.application_id = app THEN own ELSE s : s \in mscore}
                  ELSE mscore
             /\ mtask' = [mtask EXCEPT ![t] = [@ EXCEPT !.status = "completed"]]
             /\ mexec' = [mexec EXCEPT ![t] =
                            [@ EXCEPT !.pc = "returned", !.result = "completed"]]
  /\ UNCHANGED <<credits, credits0, cvPresent, appPresent, numApps, req, gtask, gexec,
                 gdocs, lost,
                 loginVars, promptVars, deleteVars>>

\* What makes the execution leave the try block before the score is
\* saved: the LLM call raised, or json.loads rejected the response.
MatchFailures == {"llm_error", "json_error"}

\* Mutation of MatchFatal: the handler stores the row of the execution.
MatchFatalSaves(t) ==
  /\ mexec[t].pc = "setup"
  /\ cvPresent
  /\ \E cause \in MatchFailures :
       mtask' = [mtask EXCEPT ![t] =
                   [status |-> "failed",
                    error_message |-> [kind |-> cause, doc |-> "-"]]]
  /\ mexec' = [mexec EXCEPT ![t] =
                 [@ EXCEPT !.pc = RetryPc(mexec[t].retries),
                           !.retries = IF @ < max_retries THEN @ + 1 ELSE @,
                           !.llm_calls = @ + 1,
                           !.result = "raised"]]
  /\ mscore' = mscore \cup {[application_id |-> mexec[t].application_id,
                               task |-> t, run |-> mexec[t].run]}
  /\ UNCHANGED <<credits, credits0, cvPresent, appPresent, numApps, req, gtask, gexec,
                 gdocs, lost,
                 loginVars, promptVars, deleteVars>>

\* Lines 276-284: the LLM call raised or json.loads rejected the response;
\* the handler commits status failed with str(e) and calls self.retry.
MatchFatal(t) ==
  /\ mexec[t].pc = "setup"
  /\ cvPresent
  /\ IF mtask[t].status = "absent"
     THEN /\ mexec' = [mexec EXCEPT ![t] =
                         [@ EXCEPT !.pc = "dead", !.llm_calls = @ + 1,
                                   !.result = "stale"]]
          /\ UNCHANGED <<mtask, mscore>>
     ELSE /\ \E cause \in MatchFailures :
               mtask' = [mtask EXCEPT ![t] =
                           [status |-> "failed",
                            error_message |-> [kind |-> cause, doc |-> "-"]]]
          /\ mexec' = [mexec EXCEPT ![t] =
                         [@ EXCEPT !.pc = RetryPc(mexec[t].retries),
                                   !.retries = IF @ < max_retries THEN @ + 1 ELSE @,
                                   !.llm_calls = @ + 1,
                                   !.result = "raised"]]
          /\ UNCHANGED mscore
  /\ UNCHANGED <<credits, credits0, cvPresent, appPresent, numApps, req, gtask,
                 gexec, gdocs, lost,
                 loginVars, promptVars, deleteVars>>

MatchAck(t) ==
  /\ mexec[t].pc = "returned"
  /\ mexec' = [mexec EXCEPT ![t] = [@ EXCEPT !.pc = "acked"]]
  /\ UNCHANGED <<credits, credits0, cvPresent, appPresent, numApps, req, gtask, gexec,
                 mtask, gdocs, mscore, lost,
                 loginVars, promptVars, deleteVars>>

MatchWorkerLost(t) ==
  /\ mexec[t].pc \in {"setup", "parsed", "returned"}
  /\ lost < MaxLost
  /\ lost' = lost + 1
  /\ mexec' = [mexec EXCEPT ![t] = [@ EXCEPT !.pc = "queued"]]
  /\ UNCHANGED <<credits, credits0, cvPresent, appPresent, numApps, req, gtask, gexec,
                 mtask, gdocs, mscore,
                 loginVars, promptVars, deleteVars>>

(***************************************************************************)
(* Login (users.py login).  The users table has the columns                *)
(* failed_login_attempts (default 0) and account_locked_until (default     *)
(* NULL) from the migration 20260104_01, but the User class of models.py   *)
(* maps neither of them.                                                   *)
(***************************************************************************)

\* models.py lines 11-35: the columns the User class maps.
UserColumns ==
  {"id", "email", "hashed_password", "full_name", "preferred_language",
   "mother_tongue", "documentation_language", "credits", "is_admin",
   "is_active", "last_login_at", "password_changed_at",
   "privacy_policy_accepted_at", "oauth_provider", "google_id",
   "profile_picture", "employment_status", "education_type",
   "additional_profile_context", "created_at"}

\* An attribute the class does not map is not loaded with the row:
\* getattr(user, name, None) yields None, and User.<name> raises
\* AttributeError.
Mapped(name) == name \in UserColumns

\* Mutation of VerifyPassword: no password is accepted.
VerifyPasswordNever(password) == FALSE

\* auth.py verify_password against the stored hash.
VerifyPassword(password) == password = "right"

\* users.py line 328: the request arrives with its password and the user
\* row is loaded.  Requests arrive in the order of their numbers.
LoginFindUser(r) ==
  /\ login[r].pc = "new"
  /\ IF r = 1 THEN TRUE ELSE login[r - 1].pc # "new"
  /\ \E password \in {"right", "wrong"} :
       login' = [login EXCEPT ![r] =
                   [@ EXCEPT !.pc = "found", !.password = password,
                             !.streak = wrongStreak,
                             !.locked = IF Mapped("account_locked_until")
                                        THEN account_locked_until
                                        ELSE "none"]]
  /\ UNCHANGED <<appVars, failed_login_attempts, account_locked_until,
                 wrongStreak, promptVars, deleteVars>>

\* users.py lines 336-351: the account is locked.
LoginLocked(r) ==
  /\ login' = [login EXCEPT ![r] = [@ EXCEPT !.pc = "done", !.resp = 403]]
  /\ UNCHANGED <<failed_login_attempts, account_locked_until, wrongStreak>>

\* users.py lines 367-406: the password is wrong.  The UPDATE of line 369
\* names User.failed_login_attempts: when the class does not map the column
\* the expression raises AttributeError and the request is answered 500
\* with nothing written.  Otherwise the count is incremented in the
\* database, and from MAX_FAILED_LOGIN_ATTEMPTS on the lock is set where it
\* is not set yet and the request is answered 403.
LoginWrongPassword(r) ==
  /\ wrongStreak' = wrongStreak + 1
  /\ IF ~Mapped("failed_login_attempts")
     THEN /\ login' = [login EXCEPT ![r] = [@ EXCEPT !.pc = "done", !.resp = 500]]
          /\ UNCHANGED <<failed_login_attempts, account_locked_until>>
     ELSE /\ failed_login_attempts' = failed_login_attempts + 1
          /\ IF failed_login_attempts + 1 >= MAX_FAILED_LOGIN_ATTEMPTS
             THEN /\ account_locked_until' = "set"
                  /\ login' = [login EXCEPT ![r] =
                                 [@ EXCEPT !.pc = "done", !.resp = 403,
                                           !.set_lock =
                                              (account_locked_until = "none")]]
             ELSE /\ UNCHANGED account_locked_until
                  /\ login' = [login EXCEPT ![r] =
                                 [@ EXCEPT !.pc = "done", !.resp = 401]]

\* users.py lines 414-426: the password is right.  The assignments to
\* failed_login_attempts and account_locked_until reach the database only
\* for columns the class maps; last_login_at is mapped and committed.
LoginSucceeds(r) ==
  /\ login' = [login EXCEPT ![r] = [@ EXCEPT !.pc = "done", !.resp = 200]]
  /\ failed_login_attempts' =
       IF Mapped("failed_login_attempts") THEN 0 ELSE failed_login_attempts
  /\ account_locked_until' =
       IF Mapped("account_locked_until") THEN "none" ELSE account_locked_until
  /\ wrongStreak' = 0

\* users.py lines 336-426, for an active user who registered with a
\* password: the lock check on the loaded row, then the password check.
LoginVerify(r) ==
  /\ login[r].pc = "found"
  /\ IF login[r].locked # "none" THEN LoginLocked(r)
     ELSE IF ~VerifyPassword(login[r].password) THEN LoginWrongPassword(r)
     ELSE LoginSucceeds(r)
  /\ UNCHANGED <<appVars, promptVars, deleteVars>>

(***************************************************************************)
(* The prompt builder of the orchestrator (tasks.py                        *)
(* generate_document_prompt_from_template).  Languages are stored as the   *)
(* labels of language_catalog.py; None is a field without a value.         *)
(***************************************************************************)

None == "None"

\* language_catalog.py line 84: SUPPORTED_LANGUAGES[0]
DEFAULT_LANGUAGE == "English"

LanguageValues == {None, "Deutsch (Schweiz)", "Italiano (Italian)"}

\* models.py line 204-205 and a value outside the three options.
LanguageSources ==
  {"preferred_language", "mother_tongue", "documentation_language", "other"}

\* The users rows and applications rows the builder is called with.
UserLanguages ==
  [preferred_language : LanguageValues, mother_tongue : LanguageValues,
   documentation_language : LanguageValues]

ApplicationLanguages == [documentation_language : LanguageValues]

\* applications.py get_language_from_user: the user's field named by
\* language_source, documentation_language for any other value, and
\* DEFAULT_LANGUAGE when the field has no value.
GetLanguageFromUser(user, language_source) ==
  LET field == IF language_source = "preferred_language"
               THEN user.preferred_language
               ELSE IF language_source = "mother_tongue"
               THEN user.mother_tongue
               ELSE user.documentation_language
  IN IF field = None THEN DEFAULT_LANGUAGE ELSE field

\* tasks.py get_language_instruction: language_instructions.get(lang_code,
\* lang_code).  The keys are ISO codes; a label is returned as it is.
GetLanguageInstruction(lang_code) ==
  IF lang_code = "de-CH" THEN "Swiss German (Schweizerdeutsch)"
  ELSE IF lang_code = "en" THEN "English"
  ELSE lang_code

\* tasks.py line 74: the application's documentation_language, or else the
\* user's documentation_language.  The default "en" of the second getattr
\* applies to a missing attribute, not to a mapped column that is None.
DocLang(user, application) ==
  IF application.documentation_language # None
  THEN application.documentation_language
  ELSE user.documentation_language

\* tasks.py lines 70-123: the language instruction the builder substitutes
\* for {language}; str.replace with None raises TypeError, the handler of
\* line 121 returns None and no template prompt exists.
PromptLanguage(template, user, application) ==
  LET language_instruction == GetLanguageInstruction(DocLang(user, application))
  IN IF language_instruction = None THEN "no_prompt" ELSE language_instruction

\* tasks.py lines 387-390: the orchestrator calls the builder for a doc_type
\* with an active template.
BuildPrompt ==
  /\ \E language_source \in LanguageSources :
       \E user \in UserLanguages, application \in ApplicationLanguages :
         LET template == [language_source |-> language_source]
         IN prompt_call' =
              [called |-> TRUE, template |-> template, user |-> user,
               application |-> application,
               language |-> PromptLanguage(template, user, application)]
  /\ UNCHANGED <<appVars, loginVars, deleteVars>>

(***************************************************************************)
(* Worker: delete_documents_task.  Two applications: application 1 belongs *)
(* to user 1, application 2 to user 2.                                     *)
(***************************************************************************)

DocIds == 1..MaxDocId

ApplicationOwner == [a \in {1, 2} |-> a]

\* The document_ids lists the task is called with.
DocumentIdLists == {<<1>>, <<2, 1>>, <<3, 1, 2>>, <<2, 2>>}

\* The generated_documents row with this id exists.
RowExists(doc_id) == gen_docs[doc_id] \in DOMAIN ApplicationOwner

\* tasks.py lines 423-435 and applications.py line 541: a generated document
\* is committed for some application and gets the next id.
AddGeneratedDocument ==
  /\ \E i \in DocIds :
       /\ gen_docs[i] = 0
       /\ \A j \in DocIds : j < i => gen_docs[j] # 0
       /\ \E a \in DOMAIN ApplicationOwner :
            gen_docs' = [gen_docs EXCEPT ![i] = a]
  /\ UNCHANGED <<appVars, loginVars, promptVars, del>>

\* applications.py line 576 (delete_documents_task.delay), or any other
\* producer of the message: the arguments of the task.
DelQueue ==
  /\ del.pc = "none"
  /\ \E a \in DOMAIN ApplicationOwner, u \in {1, 2}, ids \in DocumentIdLists :
       del' = [NoDelExec EXCEPT !.pc = "queued", !.application_id = a,
                                !.user_id = u, !.document_ids = ids]
  /\ UNCHANGED <<appVars, loginVars, promptVars, gen_docs>>

\* Lines 473-480: the application with this id and this user_id.
ApplicationOf(application_id, user_id) ==
  ApplicationOwner[application_id] = user_id

\* Lines 469-483: a new session; verify that the application belongs to the
\* user, return when it does not.
DelStart ==
  /\ del.pc = "queued"
  /\ del' = IF ApplicationOf(del.application_id, del.user_id)
            THEN [del EXCEPT !.pc = "loop", !.idx = 1, !.marked = {},
                             !.result = "-"]
            ELSE [del EXCEPT !.pc = "returned", !.marked = {},
                             !.result = "failed"]
  /\ UNCHANGED <<appVars, loginVars, promptVars, gen_docs>>

\* Mutation of FindDocument: the query does not filter by application.
FindDocumentAnyApplication(doc_id, application_id) ==
  doc_id \in DocIds /\ RowExists(doc_id)

\* Lines 485-492: the row with this id and this application_id.
FindDocument(doc_id, application_id) ==
  doc_id \in DocIds /\ gen_docs[doc_id] = application_id

\* Lines 484-503: one iteration; db.delete(doc) marks the row in the
\* session, nothing is written before the commit.
DelOne ==
  /\ del.pc = "loop"
  /\ del.idx <= Len(del.document_ids)
  /\ LET doc_id == del.document_ids[del.idx]
     IN del' = [del EXCEPT !.idx = @ + 1,
                           !.marked =
                              IF FindDocument(doc_id, del.application_id)
                              THEN @ \cup {doc_id} ELSE @]
  /\ UNCHANGED <<appVars, loginVars, promptVars, gen_docs>>

\* Lines 505-513: db.commit() deletes the marked rows in one transaction.
DelCommit ==
  /\ del.pc = "loop"
  /\ del.idx > Len(del.document_ids)
  /\ gen_docs' = [i \in DocIds |->
                    IF i \in del.marked /\ RowExists(i) THEN -1 ELSE gen_docs[i]]
  /\ del' = [del EXCEPT !.pc = "returned", !.marked = {},
                        !.result = "completed"]
  /\ UNCHANGED <<appVars, loginVars, promptVars>>

\* Lines 515-518: an exception in the try block (a query or the commit);
\* db.rollback() drops what the session marked, self.retry queues the task
\* again while retries are left.
DelFail ==
  /\ del.pc = "loop"
  /\ del' = [del EXCEPT !.pc = RetryPc(del.retries),
                        !.retries = IF @ < max_retries THEN @ + 1 ELSE @,
                        !.marked = {}, !.result = "raised"]
  /\ UNCHANGED <<appVars, loginVars, promptVars, gen_docs>>

\* celery_app.py task_acks_late: acknowledged after the function returned.
DelAck ==
  /\ del.pc = "returned"
  /\ del' = [del EXCEPT !.pc = "acked"]
  /\ UNCHANGED <<appVars, loginVars, promptVars, gen_docs>>

\* celery_app.py task_reject_on_worker_lost: the worker process dies, its
\* open transaction is rolled back, the message is delivered again.
DelWorkerLost ==
  /\ del.pc \in {"loop", "returned"}
  /\ lost < MaxLost
  /\ lost' = lost + 1
  /\ del' = [del EXCEPT !.pc = "queued", !.marked = {}]
  /\ UNCHANGED <<credits, credits0, cvPresent, appPresent, numApps, req, gtask,
                 gexec, mtask, mexec, gdocs, mscore,
                 loginVars, promptVars, gen_docs>>

DelWorkerStep ==
  \/ DelStart
  \/ DelOne
  \/ DelCommit
  \/ DelFail
  \/ DelAck
  \/ DelWorkerLost

\* The requests of the HTTP layer: authentication, then the endpoint body.
HttpStep(r) ==
  \/ GetCurrentUser(r)
  \/ GenerateDocuments(r)
  \/ CreateApplication(r)

AdminStep(r) ==
  \/ AdjustCreditsLoad(r)
  \/ AdjustCredits(r)
  \/ GrantCreditsLoad(r)
  \/ GrantCredits(r)

GenWorkerStep(t) ==
  \/ GenStart(t)
  \/ GenSetup(t)
  \/ GenFatal(t)
  \/ GenDoc(t)
  \/ GenFinish(t)
  \/ GenAck(t)
  \/ GenWorkerLost(t)

MatchWorkerStep(t) ==
  \/ MatchStart(t)
  \/ MatchNoCV(t)
  \/ MatchRead(t)
  \/ MatchScore(t)
  \/ MatchFatal(t)
  \/ MatchAck(t)
  \/ MatchWorkerLost(t)

\* The credit ledger: NumRequests concurrent requests of the user and the
\* administrators; the messages they enqueue stay in the broker.
NextLedger ==
  \/ \E r \in Reqs : HttpStep(r)
  \/ \E r \in Reqs : AdminStep(r)
  \/ DeleteDocument

SpecLedger == Init /\ [][NextLedger]_vars

\* The task lifecycles: the requests of TaskReqs and the worker executions
\* of the tasks they create.
NextWorker ==
  \/ \E r \in TaskReqs : HttpStep(r)
  \/ DeleteDocument
  \/ \E t \in TaskReqs : GenWorkerStep(t)
  \/ \E t \in TaskReqs : MatchWorkerStep(t)

\* The worker specification starts from a balance that affords every list of
\* DocTypeLists, so that every task the lists describe is created and run.
InitWorker == Init /\ credits = MaxInitCredits

SpecWorker == InitWorker /\ [][NextWorker]_vars

\* The matching scores of one application: the requests of ScoreReqs to
\* calculate_matching_score and the executions of the tasks they create.
NextMatch ==
  \/ \E r \in ScoreReqs : CalculateMatchingScore(r)
  \/ DeleteDocument
  \/ \E t \in ScoreReqs : MatchWorkerStep(t)

SpecMatch == InitWorker /\ [][NextMatch]_vars

\* The login endpoint: NumLogins requests for one user.
NextLogin ==
  \/ \E r \in Logins : LoginFindUser(r)
  \/ \E r \in Logins : LoginVerify(r)

\* A registered user has no credits; the balance plays no part in login.
InitLogin == Init /\ credits = 0

SpecLogin == InitLogin /\ [][NextLogin]_vars

\* Generation tasks of an application that can be deleted: the requests of
\* TaskReqs, the deletion of the application, and the executions.
NextDelete ==
  \/ \E r \in TaskReqs : HttpStep(r)
  \/ DeleteDocument
  \/ DeleteApplication
  \/ \E t \in TaskReqs : GenWorkerStep(t)

SpecDelete == InitWorker /\ [][NextDelete]_vars

\* The prompt builder called with every template, user and application.
NextPrompt == BuildPrompt

SpecPrompt == InitWorker /\ [][NextPrompt]_vars

\* delete_documents_task and the rows that are created while it runs.
NextDeleteDocs ==
  \/ AddGeneratedDocument
  \/ DelQueue
  \/ DelWorkerStep

SpecDeleteDocs == InitWorker /\ [][NextDeleteDocs]_vars

Next ==
  NextLedger \/ NextWorker \/ NextMatch \/ NextLogin \/ NextDelete \/ NextPrompt
    \/ NextDeleteDocs

Spec == Init /\ [][Next]_vars

(***************************************************************************)
(* Credit ledger properties (SpecLedger).                                  *)
(***************************************************************************)

\* Requests of one endpoint that were answered with one status code.
Answered(kind, code) ==
  {r \in Reqs : req[r].kind = kind /\ req[r].pc = "done" /\ req[r].resp = code}

\* Every request that has started so far calls the one endpoint.
OnlyKind(kind) == \A r \in Reqs : req[r].pc # "new" => req[r].kind = kind

AllDone == \A r \in Reqs : req[r].pc = "done"

RequestCosts == {TotalCost(ds) : ds \in DocTypeLists}

\* C1: when only generate_documents requests run against a starting balance
\* B, the number of accepted requests of total cost A > 0 is at most
\* floor(B / A), that is A times that number never exceeds B.
C1_ReservationsBounded ==
  OnlyKind("generate") =>
    \A A \in RequestCosts \ {0} :
      A * Cardinality({r \in Answered("generate", 200) :
                         TotalCost(req[r].docs) = A}) <= credits0

\* C3: the committed credit balance is never negative.
C3_BalanceNonNegative == credits >= 0

\* C3 witness: a debit and a negative admin adjustment have both been
\* committed and the balance is exactly 0.
C3_Witness ==
  /\ credits = 0
  /\ \E r1, r2 \in Reqs :
       /\ req[r1].kind \in {"generate", "create_application"}
       /\ req[r1].pc = "done" /\ req[r1].resp = 200
       /\ req[r2].kind = "adjust_credits" /\ req[r2].amount < 0
       /\ req[r2].pc = "done" /\ req[r2].resp = 200

\* C4: when only create_application requests run against a starting balance
\* B, at most B succeed, every other answered request got 402, one
\* application exists per success, and once all are answered the balance
\* is B minus the number of successes.
C4_CreateDebitsExactly ==
  OnlyKind("create_application") =>
    LET ok == Cardinality(Answered("create_application", 200))
    IN /\ ok <= credits0
       /\ numApps = ok
       /\ \A r \in Reqs : req[r].pc = "done" => req[r].resp \in {200, 402}
       /\ AllDone => credits = credits0 - ok

\* C10: a generate_documents request answered 402 or 400 leaves the credit
\* balance, the generation task rows and the broker messages unchanged.
C10_RejectedChangesNothing ==
  [][\A r \in Reqs :
       (/\ req[r].kind = "generate"
        /\ req[r].pc = "authed"
        /\ req'[r].pc = "done"
        /\ req'[r].resp \in {400, 402})
       => (credits' = credits /\ gtask' = gtask /\ gexec' = gexec)]_vars

\* C10 witness: one generate request was rejected for insufficient credits
\* and another one for the missing CV.
C10_Witness ==
  \E r1, r2 \in Reqs :
    /\ req[r1].kind = "generate" /\ req[r1].pc = "done" /\ req[r1].resp = 402
    /\ req[r2].kind = "generate" /\ req[r2].pc = "done" /\ req[r2].resp = 400
    /\ gtask[r1].status = "absent" /\ gtask[r2].status = "absent"
    /\ credits = credits0

\* A step in which generate_documents answers request r with 200.
GenerateAccepted(r) ==
  /\ req[r].kind = "generate"
  /\ req[r].pc = "authed"
  /\ req'[r].pc = "done"
  /\ req'[r].resp = 200

C14_ReservationPositive ==
  \A r \in Reqs :
    gtask[r].status # "absent" => TotalCost(gexec[r].doc_types) > 0

(***************************************************************************)
(* Task lifecycle properties (SpecWorker).                                 *)
(***************************************************************************)

Terminal == {"completed", "failed"}

\* The rows one execution of a generation task wrote for one position.
RowsOf(t, run, pos) ==
  {d \in gdocs : d.task = t /\ d.run = run /\ d.pos = pos}

\* C2: once a GenerationTask or MatchingScoreTask is completed or failed, no
\* step changes its status or progress.
C2_TerminalStable ==
  [][\A t \in Reqs :
       /\ gtask[t].status \in Terminal
            => /\ gtask'[t].status = gtask[t].status
               /\ gtask'[t].progress = gtask[t].progress
       /\ mtask[t].status \in Terminal
            => mtask'[t].status = mtask[t].status]_vars

\* C5: over the whole lifetime of a GenerationTask, retries and redelivery
\* included, completed_docs and progress never decrease from one committed
\* state to the next, and completed_docs never exceeds total_docs.
C5_ProgressMonotone ==
  [][\A t \in Reqs :
       /\ gtask'[t].completed_docs >= gtask[t].completed_docs
       /\ gtask'[t].progress >= gtask[t].progress
       /\ gtask'[t].completed_docs <= gtask'[t].total_docs]_vars

\* C6 as stated: every committed state of a GenerationTask with
\* total_docs > 0 has progress = round(100 * completed_docs / total_docs).
C6_ProgressIsRounded ==
  \A t \in Reqs :
    (gtask[t].status # "absent" /\ gtask[t].total_docs > 0)
      => gtask[t].progress = PyRound(gtask[t].completed_docs, gtask[t].total_docs)

\* C6 amended: until the task is first marked completed, every committed
\* state with total_docs > 0 has progress equal to 100 * completed_docs /
\* total_docs truncated to an integer; a task marked completed has
\* progress 100.
C6_ProgressIsTruncated ==
  \A t \in Reqs :
    (gtask[t].status # "absent" /\ gtask[t].total_docs > 0)
      => /\ ~gexec[t].finished
              => gtask[t].progress * gtask[t].total_docs
                    <= 100 * gtask[t].completed_docs
                 /\ 100 * gtask[t].completed_docs
                    < (gtask[t].progress + 1) * gtask[t].total_docs
         /\ gtask[t].status = "completed" => gtask[t].progress = 100

\* C6 witness: two of three documents are done and the committed progress
\* is 66.
C6_Witness ==
  \E t \in Reqs :
    /\ gtask[t].status = "processing"
    /\ gtask[t].total_docs = 3
    /\ gtask[t].completed_docs = 2
    /\ gtask[t].progress = 66

\* C7: a doc_type whose LLM call fails never ends the execution: the loop
\* attempts every position in request order, an execution that reaches its
\* end is completed whatever failed, and every position that neither failed
\* nor was skipped has exactly one row of that execution.
C7_FailureNeverAborts ==
  \A t \in Reqs :
    LET e == gexec[t]
    IN /\ (\E i \in DOMAIN e.out : e.out[i] = "raise")
            => e.result \in {"-", "completed"}
       /\ e.pc = "loop" => Len(e.out) = e.idx - 1
       /\ (e.pc = "returned" /\ e.result = "completed")
            => /\ gtask[t].status = "completed"
               /\ Len(e.out) = Len(e.doc_types)
               /\ \A i \in DOMAIN e.doc_types :
                    IF e.out[i] \in {"skip", "raise"}
                    THEN RowsOf(t, e.run, i) = {}
                    ELSE /\ Cardinality(RowsOf(t, e.run, i)) = 1
                         /\ \A d \in RowsOf(t, e.run, i) :
                              d.doc_type = e.doc_types[i]

\* C7 witness: an execution over three doc_types in which every LLM call
\* failed has returned completed.
C7_Witness ==
  \E t \in Reqs :
    /\ gexec[t].pc = "returned"
    /\ gexec[t].out = <<"raise", "raise", "raise">>
    /\ gtask[t].status = "completed"

\* An execution over three resolvable doc_types in which only the second
\* LLM call failed has returned.
OnlySecondFailed(t) ==
  /\ gexec[t].pc = "returned"
  /\ gexec[t].result = "completed"
  /\ Len(gexec[t].doc_types) = 3
  /\ gexec[t].out[1] \notin {"skip", "raise"}
  /\ gexec[t].out[2] = "raise"
  /\ gexec[t].out[3] \notin {"skip", "raise"}

\* C8: for doc_types [A, B, C] where only B's LLM call failed, the task is
\* completed, the execution wrote rows for A and C and none for B,
\* completed_docs is 3 and error_message names B.
C8_PartialFailureIsolated ==
  \A t \in Reqs :
    OnlySecondFailed(t)
      => /\ gtask[t].status = "completed"
         /\ RowsOf(t, gexec[t].run, 1) # {}
         /\ RowsOf(t, gexec[t].run, 2) = {}
         /\ RowsOf(t, gexec[t].run, 3) # {}
         /\ gtask[t].completed_docs = 3
         /\ gtask[t].error_message = PartialFailure(gexec[t].doc_types[2])

\* C8 witness: such an execution, delivered once, has returned.
C8_Witness ==
  \E t \in Reqs : OnlySecondFailed(t) /\ gexec[t].run = 1

\* C9: a GeneratedDocument row written by the orchestrator holds content;
\* an empty or None LLM result never gets a row.
C9_RowsHoldContent == \A d \in gdocs : d.content = "text"

\* C12: no step of an execution of generate_documents_task changes the
\* credit balance, whichever delivery, retry or redelivery it belongs to
\* and whatever fails in it: the balance stays at the starting balance
\* minus the cost debited when the task was created.
C12_WorkerLeavesCredits ==
  /\ [][\A t \in Reqs :
          (gexec[t].pc # "none" /\ gexec'[t] # gexec[t])
            => credits' = credits]_vars
  /\ [](\A t \in Reqs :
          gtask[t].status # "absent"
            => credits = credits0 - TotalCost(gexec[t].doc_types))

\* C12 witness: a task of cost 3 is completed by its third execution, after
\* a retry and a redelivery, with a per-document failure in it, and the
\* balance is the starting balance minus 3.
C12_Witness ==
  \E t \in Reqs :
    /\ gtask[t].status = "completed"
    /\ gexec[t].run >= 3
    /\ gexec[t].retries >= 1
    /\ lost >= 1
    /\ \E i \in DOMAIN gexec[t].out : gexec[t].out[i] = "raise"
    /\ TotalCost(gexec[t].doc_types) = 3
    /\ credits = credits0 - 3

\* C13: within an execution the status is set to failed only before the
\* first doc_type of the loop is attempted; while the loop runs the status
\* is not failed, and an execution that went through its loop returns
\* completed.
C13_FailedOnlyBeforeLoop ==
  /\ [][\A t \in Reqs :
          (gtask'[t].status = "failed" /\ gtask[t].status # "failed")
            => /\ gexec[t].pc = "setup"
               /\ gexec[t].out = <<>>
               /\ gexec'[t].out = <<>>]_vars
  /\ [](\A t \in Reqs :
          /\ gexec[t].pc = "loop" => gtask[t].status = "processing"
          /\ (gexec[t].pc = "returned" /\ gexec[t].out # <<>>)
               => gtask[t].status = "completed")

\* C13 witness: an execution found no CV before its loop and set the task
\* to failed.
C13_Witness ==
  \E t \in Reqs :
    /\ gtask[t].status = "failed"
    /\ gtask[t].error_message.kind = "no_cv"
    /\ gexec[t].pc = "returned"
    /\ gexec[t].out = <<>>
    /\ Len(gexec[t].doc_types) > 0

\* The error_message of line 439 describes the failure of doc_type d.
Describes(msg, d) == msg.kind = "partial" /\ msg.doc = d

\* The positions of an execution's output whose doc_type resolved to a
\* prompt, that is the doc_types that were attempted.
Attempted(out) == {i \in DOMAIN out : out[i] # "skip"}

\* C21: when an execution in which several doc_types failed has returned
\* completed, the task's error_message describes the failure of every
\* doc_type that failed in it, not only the last one.
C21_ErrorMessageNamesEveryFailure ==
  \A t \in Reqs :
    (gexec[t].pc = "returned" /\ gexec[t].result = "completed")
      => \A i \in DOMAIN gexec[t].out :
           gexec[t].out[i] = "raise"
             => Describes(gtask[t].error_message, gexec[t].doc_types[i])

\* C22: the completed_docs an execution commits never counts a skipped
\* doc_type: it is at most the number of doc_types the execution has
\* attempted so far, wherever the skipped ones stand in the list.
C22_SkippedNotCounted ==
  [][\A t \in Reqs :
       (gexec[t].pc = "loop"
        /\ gtask'[t].completed_docs # gtask[t].completed_docs)
         => gtask'[t].completed_docs <= Cardinality(Attempted(gexec'[t].out))]_vars

\* C23: when an execution over doc_types that all resolve to a prompt has
\* returned completed, completed_docs is the number of doc_types it
\* attempted, failed ones included, the last one too.
C23_CompletedCountsAttempts ==
  \A t \in Reqs :
    (/\ gexec[t].pc = "returned"
     /\ gexec[t].result = "completed"
     /\ gexec[t].run = 1
     /\ Attempted(gexec[t].out) = DOMAIN gexec[t].doc_types)
      => gtask[t].completed_docs = Cardinality(Attempted(gexec[t].out))

\* C24: the status of a GenerationTask becomes processing only from
\* pending, this happens once in the lifetime of the task, and total_docs
\* keeps the value it has then.
C24_ProcessingEnteredOnce ==
  /\ [][\A t \in Reqs :
          /\ (gtask'[t].status = "processing" /\ gtask[t].status # "processing")
               => gtask[t].status = "pending"
          /\ gtask[t].status \notin {"absent", "pending"}
               => gtask'[t].total_docs = gtask[t].total_docs]_vars
  /\ [](\A t \in Reqs : gexec[t].run <= 1)

(***************************************************************************)
(* Generation tasks and the deletion of their application (SpecDelete).    *)
(***************************************************************************)

\* A step in which an execution of generate_documents_task that finds a
\* prerequisite missing leaves its setup code, other than by the loss of
\* the worker or by the handler of an exception raised in the setup code.
GenFindsMissing(t) ==
  /\ gexec[t].pc = "setup"
  /\ MissingPrerequisite(appPresent, cvPresent) # "none"
  /\ gexec'[t].pc # "setup"
  /\ lost' = lost
  /\ gtask'[t].error_message.kind # "fatal"

GenPersists(t) ==
  /\ gexec[t].pc = "loop"
  /\ Len(gexec'[t].out) = Len(gexec[t].out) + 1
  /\ gexec'[t].out[Len(gexec'[t].out)] \notin {"skip", "raise"}

\* The rows one GenerationTask produced for one doc_type.
RowsOfDocType(t, d) == {row \in gdocs : row.task = t /\ row.doc_type = d}

\* C28: an execution for a task_id that was executed before does not look
\* for the rows already persisted: it starts at the first doc_type, and
\* every doc_type it generates gets a new row whatever rows exist, so that
\* two rows of one task for one doc_type can exist.
C28_RerunRegenerates ==
  /\ [][\A t \in Reqs :
          GenPersists(t)
            => \E row \in gdocs' \ gdocs :
                 /\ gdocs' = gdocs \cup {row}
                 /\ row.task = t
                 /\ row.run = gexec[t].run
                 /\ row.doc_type = gexec[t].doc_types[gexec[t].idx]]_vars
  /\ [](\A t \in Reqs :
          gexec[t].pc = "setup" => gexec[t].idx = 1 /\ gexec[t].out = <<>>)

\* C28 witness: one task has two rows for one doc_type, written by two of
\* its executions.
C28_Witness ==
  \E t \in Reqs : \E d \in DocTypes :
    /\ Cardinality(RowsOfDocType(t, d)) = 2
    /\ \E r1, r2 \in RowsOfDocType(t, d) : r1.run # r2.run

(***************************************************************************)
(* Matching-score properties (SpecMatch).                                  *)
(***************************************************************************)

\* The row that holds the result computed by the current execution of t.
OwnScore(t) ==
  [application_id |-> mexec[t].application_id, task |-> t, run |-> mexec[t].run]

\* A step in which an execution of calculate_matching_score_task leaves the
\* try block with the given result.
MatchEnds(t, result) ==
  /\ mexec[t].pc \in {"setup", "parsed"}
  /\ mexec'[t].pc \notin {"setup", "parsed"}
  /\ mexec'[t].result = result

\* C15: there is at most one MatchingScore row per application in every
\* reachable state, also when tasks with recalculate = true run one after
\* the other and when tasks for one application run concurrently.
C15_OneScorePerApplication ==
  \A s \in mscore : Cardinality(ScoreRowsOf(s.application_id)) = 1

\* C15 witness: two tasks for one application both found no row; one
\* inserted its row and completed, the INSERT of the other was rejected.
C15_Witness ==
  \E t1, t2 \in Reqs :
    /\ t1 # t2
    /\ mexec[t1].application_id = mexec[t2].application_id
    /\ mexec[t1].result = "completed"
    /\ mexec[t2].result = "conflict"
    /\ ScoreRowsOf(mexec[t1].application_id) # {}

\* C16: every execution that ends with status completed has written its
\* own result to the application's row, whatever recalculate is.
C16_CompletedWroteOwnScore ==
  [][\A t \in Reqs :
       MatchEnds(t, "completed") => OwnScore(t) \in mscore']_vars

\* C17: an execution whose LLM response does not parse as JSON sets the
\* task to failed with the parse error as error_message and creates or
\* changes no MatchingScore row.
C17_ParseFailureWritesNothing ==
  [][\A t \in Reqs :
       (MatchEnds(t, "raised") /\ mtask'[t].error_message.kind = "json_error")
         => /\ mtask'[t].status = "failed"
            /\ mscore' = mscore]_vars

\* C17 witness: a task is failed with the parse error and its application
\* has no row.
C17_Witness ==
  \E t \in Reqs :
    /\ mtask[t].status = "failed"
    /\ mtask[t].error_message.kind = "json_error"
    /\ mexec[t].result = "raised"
    /\ ScoreRowsOf(mexec[t].application_id) = {}

\* C25: a task whose executions each ended with a task-level exception is
\* executed again at most max_retries times, and once no execution is left
\* (the message is dropped) its status is failed with error_message set.
C25_RetriesEndFailed ==
  /\ \A t \in Reqs :
       /\ gexec[t].retries <= max_retries
       /\ gexec[t].pc = "dead"
            => /\ gtask[t].status = "failed"
               /\ gtask[t].error_message # NoError
  /\ \A t \in Reqs :
       /\ mexec[t].retries <= max_retries
       /\ mexec[t].pc = "dead"
            => /\ mtask[t].status = "failed"
               /\ mtask[t].error_message # NoError

\* C27: a matching-score task makes at most one LLM call in its lifetime,
\* and a task that is completed or failed on the LLM call or its result
\* has made exactly one.
C27_OneLLMCall ==
  \A t \in Reqs :
    /\ mexec[t].llm_calls <= 1
    /\ (\/ mtask[t].status = "completed"
        \/ mtask[t].error_message.kind \in MatchFailures)
         => mexec[t].llm_calls = 1

(***************************************************************************)
(* Login properties (SpecLogin).                                           *)
(***************************************************************************)

\* A step in which the login endpoint answers request r, sent with the
\* given password.
LoginAnswers(r, password) ==
  /\ login[r].pc = "found"
  /\ login'[r].pc = "done"
  /\ login[r].password = password

\* C18: when two wrong-password logins both arrive after
\* MAX_FAILED_LOGIN_ATTEMPTS - 1 failed attempts, both are answered 403,
\* the account is locked with failed_login_attempts >=
\* MAX_FAILED_LOGIN_ATTEMPTS, and exactly one of them set
\* account_locked_until.
C18_ConcurrentLockout ==
  \A r1, r2 \in Logins :
    (/\ r1 # r2
     /\ login[r1].pc = "done" /\ login[r1].password = "wrong"
     /\ login[r2].pc = "done" /\ login[r2].password = "wrong"
     /\ login[r1].streak = MAX_FAILED_LOGIN_ATTEMPTS - 1
     /\ login[r2].streak = MAX_FAILED_LOGIN_ATTEMPTS - 1)
    => /\ login[r1].resp = 403
       /\ login[r2].resp = 403
       /\ failed_login_attempts >= MAX_FAILED_LOGIN_ATTEMPTS
       /\ account_locked_until # "none"
       /\ login[r1].set_lock # login[r2].set_lock

\* C19: counted from 0 failed attempts and no lock, each of the first
\* MAX_FAILED_LOGIN_ATTEMPTS - 1 consecutive wrong-password logins is
\* answered 401, adds exactly 1 to failed_login_attempts and leaves
\* account_locked_until unset; the next one sets account_locked_until.
C19_CountsThenLocks ==
  [][\A r \in Logins :
       LoginAnswers(r, "wrong") =>
         IF wrongStreak < MAX_FAILED_LOGIN_ATTEMPTS - 1
         THEN /\ login'[r].resp = 401
              /\ failed_login_attempts' = failed_login_attempts + 1
              /\ account_locked_until' = "none"
         ELSE wrongStreak = MAX_FAILED_LOGIN_ATTEMPTS - 1
                => account_locked_until' # "none"]_vars

C29_LanguageFromSource ==
  prompt_call.called
    => prompt_call.language =
         GetLanguageInstruction(
           GetLanguageFromUser(prompt_call.user,
                               prompt_call.template.language_source))

(***************************************************************************)
(* delete_documents_task properties (SpecDeleteDocs).                      *)
(***************************************************************************)

\* The ids named by the document_ids argument of the task.
NamedIds == {del.document_ids[k] : k \in DOMAIN del.document_ids}

\* C30: a row of generated_documents changes only by being deleted in the
\* commit of an execution, and then its id is in document_ids, its
\* application_id is the given application and that application belongs to
\* user_id; the commit deletes every row the execution found, all in one
\* step, and an execution that does not reach its commit deletes nothing.
C30_DeletesOnlyOwnedNamedRows ==
  /\ [][\A i \in DocIds :
          (RowExists(i) /\ gen_docs'[i] # gen_docs[i])
            => /\ gen_docs'[i] = -1
               /\ i \in NamedIds
               /\ gen_docs[i] = del.application_id
               /\ ApplicationOwner[del.application_id] = del.user_id
               /\ del.pc = "loop"
               /\ del'.result = "completed"
               /\ \A j \in del.marked : gen_docs'[j] = -1]_vars
  /\ [](\A i \in del.marked : RowExists(i))

\* C30 witness: the task was called with three ids for an application of
\* its user; the two rows of that application are deleted and the third
\* row, of another application, is still there.
C30_Witness ==
  /\ del.result = "completed"
  /\ del.document_ids = <<3, 1, 2>>
  /\ ApplicationOwner[del.application_id] = del.user_id
  /\ \E i, j, k \in NamedIds :
       /\ i # j
       /\ gen_docs[i] = -1
       /\ gen_docs[j] = -1
       /\ RowExists(k)
       /\ gen_docs[k] # del.application_id

====
